---- MODULE Spec2Model ----
(***************************************************************************)
(* planfix (src/planfix.c): a PostgreSQL extension that keeps a global     *)
(* list of PlanfixDirectives, rebuilt by the assign hook of the GUC        *)
(* planfix.forcedindex, and a get_relation_info hook that removes from     *)
(* rel->indexlist every index that the directives of the planned relation  *)
(* do not name.                                                            *)
(*                                                                         *)
(* A state is the backend between two steps: the globals of planfix.c, the *)
(* hook pointer of the planner, and the locals and arguments of the        *)
(* statement the backend ran last (kept until ReadyForQuery).              *)
(*                                                                         *)
(* Spec follows the store and the hook for every string of at most MaxLen  *)
(* characters; SpecGuc follows the value of the variable as well, for      *)
(* shorter strings; SpecRules assigns strings made of one or two rules;    *)
(* SpecSplit runs SimpleStringSplit alone.                                 *)
(***************************************************************************)
EXTENDS Integers, Sequences, FiniteSets, TLC

\* ---------------------------------------------------------------- bounds
\* Longest configuration string assigned to planfix.forcedindex.
MaxLen == 5
\* Longest rel->indexlist the planner hands to the hook.
MaxCand == 3

\* ------------------------------------------------------------- the catalog
\* Oids of the relations of the database the backend is connected to: the
\* tables T and U, the indexes I, J and K, the materialized view TT.
InvalidOid == 0
OidT == 1
OidU == 2
OidI == 3
OidJ == 4
OidK == 5
OidM == 6

RELKIND_RELATION == "r"
RELKIND_INDEX == "i"
RELKIND_MATVIEW == "m"

\* The characters a configuration string is made of.
Chars == {"T", "U", "I", "J", ",", ";"}

\* stringToQualifiedNameList + makeRangeVarFromNameList + RangeVarGetRelid
\* with missing_ok = true: the oid of the relation of that name, InvalidOid
\* when there is none.  The name of the index K is longer than any string
\* assigned here.
RangeVarGetRelid(name) ==
  IF name = <<"T">> THEN OidT
  ELSE IF name = <<"U">> THEN OidU
  ELSE IF name = <<"I">> THEN OidI
  ELSE IF name = <<"J">> THEN OidJ
  ELSE IF name = <<"T", "T">> THEN OidM
  ELSE InvalidOid

\* pg_class.relkind of the relation, '\0' when there is no such relation.
get_rel_relkind(oid) ==
  IF oid \in {OidT, OidU} THEN RELKIND_RELATION
  ELSE IF oid \in {OidI, OidJ, OidK} THEN RELKIND_INDEX
  ELSE IF oid = OidM THEN RELKIND_MATVIEW
  ELSE "\\0"

\* ------------------------------------------------------------------ state
VARIABLES
  directives,              \* static List *directives: the directive store
  oldHook,                 \* static get_relation_info_hook_type oldHook
  get_relation_info_hook,  \* the planner's hook pointer
  mc,                      \* static MemoryContext mc
  backend,                 \* "running", or "aborted" once free() has aborted it
  stmt,                    \* the step the backend ran last
  rawname,                 \* varForcedIndexAssign: copy of newval
  error,                   \* the elog(ERROR) the step raised
  relationObjectId,        \* planfixHook: the relation being planned
  candidates,              \* rel->indexlist on entry of the hook
  indexlist,               \* rel->indexlist when the planner gets it back
  oldHookCalls,            \* the calls of the other extension's hook
  varForcedIndex,          \* static char *varForcedIndex: the value of the GUC
  priorval,                \* the value of the GUC when the SET began
  shown,                   \* what varForcedIndexShow returned
  nfreed,                  \* varForcedIndexAssign: the calls of directive_free
  unfreed,                 \* directives the call palloc'ed and did not free
  splitText,               \* SimpleStringSplit: the argument s
  splitSep,                \* SimpleStringSplit: the argument separator
  splitTokens              \* SimpleStringSplit: the list returned

\* The globals of planfix.c with the planner's hook, and the locals of the
\* last statement.
planVars == <<relationObjectId, candidates, indexlist, oldHookCalls>>
gucVars == <<varForcedIndex, priorval, shown>>
heapVars == <<nfreed, unfreed>>
splitVars == <<splitText, splitSep, splitTokens>>

vars == <<directives, oldHook, get_relation_info_hook, mc, backend, stmt,
          rawname, error, planVars, gucVars, heapVars, splitVars>>

PLANFIX_OP_FORCEINDEX == "FORCEINDEX"

\* --------------------------------------------------------------- pg lists
RECURSIVE list_delete_ptr(_, _)
\* list_delete_ptr: the list without its first cell that holds datum.
list_delete_ptr(list, datum) ==
  IF list = <<>> THEN <<>>
  ELSE IF Head(list) = datum THEN Tail(list)
  ELSE <<Head(list)>> \o list_delete_ptr(Tail(list), datum)

\* Mutant: only the first cell of the list is compared.
list_member_oid_FirstOnly(list, oid) == list # <<>> /\ list[1] = oid

list_member_oid(list, oid) == \E k \in 1..Len(list) : list[k] = oid

RECURSIVE DeleteEach(_, _)
\* foreach (c, fordelete) list = list_delete_ptr(list, lfirst(c))
DeleteEach(list, fordelete) ==
  IF fordelete = <<>> THEN list
  ELSE DeleteEach(list_delete_ptr(list, Head(fordelete)), Tail(fordelete))

\* --------------------------------------------------------- SimpleStringSplit
RECURSIVE ScanToken(_, _, _)
\* while (*nextp && *nextp != separator) nextp++;
ScanToken(s, separator, nextp) ==
  IF nextp <= Len(s) /\ s[nextp] # separator
  THEN ScanToken(s, separator, nextp + 1)
  ELSE nextp

RECURSIVE SplitFrom_ShortCopy(_, _, _, _)
\* Mutant: strncpy copies one character less than the run has.
SplitFrom_ShortCopy(s, separator, curr, tokenList) ==
  LET endp == ScanToken(s, separator, curr)
      len == endp - curr
      tokens == IF len > 0
                THEN Append(tokenList, SubSeq(s, curr, endp - 2))
                ELSE tokenList
  IN IF endp > Len(s) THEN tokens
     ELSE SplitFrom_ShortCopy(s, separator, endp + 1, tokens)

RECURSIVE SplitFrom(_, _, _, _)
\* One turn of the for(;;) loop, starting at position curr.
SplitFrom(s, separator, curr, tokenList) ==
  LET endp == ScanToken(s, separator, curr)
      len == endp - curr
      tokens == IF len > 0
                THEN Append(tokenList, SubSeq(s, curr, endp - 1))
                ELSE tokenList
  IN IF endp > Len(s) THEN tokens
     ELSE SplitFrom(s, separator, endp + 1, tokens)

\* Mutant: the scan starts at the second character.
SimpleStringSplit_FromSecond(s, separator) == SplitFrom(s, separator, 2, <<>>)

SimpleStringSplit(s, separator) == SplitFrom(s, separator, 1, <<>>)

\* ------------------------------------------------------ varForcedIndexAssign
ErrNone == "None"
ErrUnknownIdentifier == "UnknownIdentifier"        \* oid invalid for name
ErrMultipleTablesInGroup == "MultipleTablesInGroup" \* only one relation must be defined
ErrIndexBeforeTable == "IndexBeforeTable"          \* one relation must be defined first
ErrUnsupportedRelationKind == "UnsupportedRelationKind" \* unhandled relkind

\* The directive palloc'ed at the top of a section.
NewDirective ==
  [op |-> PLANFIX_OP_FORCEINDEX, relation |-> InvalidOid, indices |-> <<>>]

\* Mutant: an index is accepted before the table of its section.
ScanItem_NoOrderCheck(d, name) ==
  LET oid == RangeVarGetRelid(name)
  IN IF oid = InvalidOid
     THEN [error |-> ErrUnknownIdentifier, d |-> d]
     ELSE IF get_rel_relkind(oid) = RELKIND_RELATION
     THEN IF d.relation # InvalidOid
          THEN [error |-> ErrMultipleTablesInGroup, d |-> d]
          ELSE [error |-> ErrNone, d |-> [d EXCEPT !.relation = oid]]
     ELSE IF get_rel_relkind(oid) = RELKIND_INDEX
     THEN [error |-> ErrNone, d |-> [d EXCEPT !.indices = Append(@, oid)]]
     ELSE [error |-> ErrUnsupportedRelationKind, d |-> d]

\* Mutant: a relation that is neither a table nor an index is passed over.
ScanItem_OtherKindSkipped(d, name) ==
  LET oid == RangeVarGetRelid(name)
  IN IF oid = InvalidOid
     THEN [error |-> ErrUnknownIdentifier, d |-> d]
     ELSE IF get_rel_relkind(oid) = RELKIND_RELATION
     THEN IF d.relation # InvalidOid
          THEN [error |-> ErrMultipleTablesInGroup, d |-> d]
          ELSE [error |-> ErrNone, d |-> [d EXCEPT !.relation = oid]]
     ELSE IF get_rel_relkind(oid) = RELKIND_INDEX
     THEN IF d.relation = InvalidOid
          THEN [error |-> ErrIndexBeforeTable, d |-> d]
          ELSE [error |-> ErrNone, d |-> [d EXCEPT !.indices = Append(@, oid)]]
     ELSE [error |-> ErrNone, d |-> d]

\* One turn of foreach (c2, section): the item name is resolved and added to
\* the directive d, or an error is raised.  elog(ERROR) does not return.
ScanItem(d, name) ==
  LET oid == RangeVarGetRelid(name)
  IN IF oid = InvalidOid
     THEN [error |-> ErrUnknownIdentifier, d |-> d]
     ELSE IF get_rel_relkind(oid) = RELKIND_RELATION
     THEN IF d.relation # InvalidOid
          THEN [error |-> ErrMultipleTablesInGroup, d |-> d]
          ELSE [error |-> ErrNone, d |-> [d EXCEPT !.relation = oid]]
     ELSE IF get_rel_relkind(oid) = RELKIND_INDEX
     THEN IF d.relation = InvalidOid
          THEN [error |-> ErrIndexBeforeTable, d |-> d]
          ELSE [error |-> ErrNone, d |-> [d EXCEPT !.indices = Append(@, oid)]]
     ELSE [error |-> ErrUnsupportedRelationKind, d |-> d]

RECURSIVE ScanSection(_, _, _)
\* foreach (c2, section): the items of one section from item k on, with the
\* directive d built so far.
ScanSection(section, k, d) ==
  IF k > Len(section) THEN [error |-> ErrNone, d |-> d]
  ELSE LET r == ScanItem(d, section[k])
       IN IF r.error # ErrNone THEN r
          ELSE ScanSection(section, k + 1, r.d)

RECURSIVE ScanSections(_, _, _)
\* foreach (c, sections): the sections from section k on, with the
\* directives collected so far.  pending is the directive d of the section
\* that raised the error: palloc'ed, and not yet appended to tmpdirectives.
ScanSections(sections, k, tmpdirectives) ==
  IF k > Len(sections)
  THEN [error |-> ErrNone, tmpdirectives |-> tmpdirectives, pending |-> <<>>]
  ELSE LET section == SimpleStringSplit(sections[k], ",")
           r == ScanSection(section, 1, NewDirective)
       IN IF r.error # ErrNone
          THEN [error |-> r.error, tmpdirectives |-> tmpdirectives,
                pending |-> <<r.d>>]
          ELSE ScanSections(sections, k + 1, Append(tmpdirectives, r.d))

\* Mutant: the directives collected before the error are installed.
InstallDirectives_Partial(kept, r) == kept \o r.tmpdirectives

\* foreach (c, tmpdirectives) directives = lappend(directives, lfirst(c)):
\* reached only when no elog(ERROR) has left the function (elog(ERROR) jumps
\* out of varForcedIndexAssign, the goto error after it is never run).
InstallDirectives(kept, r) ==
  IF r.error = ErrNone THEN kept \o r.tmpdirectives ELSE kept

\* The directives the first block of varForcedIndexAssign collects.
ForDelete(dirs) == SelectSeq(dirs, LAMBDA d : d.op = PLANFIX_OP_FORCEINDEX)

\* Mutant: only the first directive of the store is unlinked.
DeleteOld_FirstOnly(dirs) == IF dirs = <<>> THEN <<>> ELSE Tail(dirs)

\* Mutant: the directives of the earlier assignment stay in the store.
DeleteOld_KeepsOld(dirs) == dirs

\* The first block of varForcedIndexAssign: every directive of the store
\* with op FORCEINDEX is freed and unlinked.
DeleteOld(dirs) == DeleteEach(dirs, ForDelete(dirs))

\* directive_free calls free() on a chunk that palloc returned: undefined
\* behaviour.  The C library either aborts the backend or goes on.
directive_free_outcomes(dirs) ==
  IF ForDelete(dirs) = <<>> THEN {"running"} ELSE {"running", "aborted"}

\* Every configuration string of at most MaxLen characters.
RECURSIVE StringsOfLen(_)
StringsOfLen(n) ==
  IF n = 0 THEN {<<>>}
  ELSE {Append(s, c) : s \in StringsOfLen(n - 1), c \in Chars}
Strings == UNION {StringsOfLen(n) : n \in 0..MaxLen}

\* --------------------------------------------------------------- planfixHook
\* Mutant: the test of allowed is inverted.
FilterIndexlist_Inverted(d, list) ==
  LET fordelete == SelectSeq(list, LAMBDA info : list_member_oid(d.indices, info))
  IN DeleteEach(list, fordelete)

\* The body of the if of one directive: the entries of rel->indexlist whose
\* indexoid is not in d->indices are collected, then unlinked one by one.
\* The planner builds one IndexOptInfo per index, so an entry is its indexoid.
FilterIndexlist(d, list) ==
  LET fordelete == SelectSeq(list, LAMBDA info : ~list_member_oid(d.indices, info))
  IN DeleteEach(list, fordelete)

\* Mutant: a directive with an empty whitelist is applied too.
ApplyDirective_EmptyApplied(d, relid, list) ==
  IF d.op = PLANFIX_OP_FORCEINDEX /\ d.relation = relid
  THEN IF get_rel_relkind(relid) = RELKIND_RELATION
       THEN FilterIndexlist(d, list)
       ELSE list
  ELSE list

\* One turn of foreach (c, directives).
ApplyDirective(d, relid, list) ==
  IF d.op = PLANFIX_OP_FORCEINDEX /\ d.relation = relid /\ d.indices # <<>>
  THEN IF get_rel_relkind(relid) = RELKIND_RELATION
       THEN FilterIndexlist(d, list)
       ELSE list
  ELSE list

RECURSIVE FilterBy_FirstMatch(_, _, _)
\* Mutant: the loop ends after the first directive that restricts the relation.
FilterBy_FirstMatch(dirs, relid, list) ==
  IF dirs = <<>> THEN list
  ELSE IF Head(dirs).relation = relid /\ Head(dirs).indices # <<>>
  THEN ApplyDirective(Head(dirs), relid, list)
  ELSE FilterBy_FirstMatch(Tail(dirs), relid, list)

RECURSIVE FilterBy(_, _, _)
\* foreach (c, directives): rel->indexlist after the loop.
FilterBy(dirs, relid, list) ==
  IF dirs = <<>> THEN list
  ELSE FilterBy(Tail(dirs), relid, ApplyDirective(Head(dirs), relid, list))

\* if (hook) hook(root, relationObjectId, inhparent, rel): the calls made.
CallHook(hook, relid, list) ==
  IF hook # "NULL"
  THEN <<[hook |-> hook, relationObjectId |-> relid, indexlist |-> list]>>
  ELSE <<>>

\* Mutant: oldHook is called with the list as it was on entry.
HookRun_ChainsUnfiltered(dirs, old, relid, list) ==
  LET filtered == FilterBy(dirs, relid, list)
  IN [indexlist |-> filtered, calls |-> CallHook(old, relid, list)]

\* planfixHook as a whole: rel->indexlist on return and the calls of oldHook.
HookRun(dirs, old, relid, list) ==
  LET filtered == FilterBy(dirs, relid, list)
  IN [indexlist |-> filtered, calls |-> CallHook(old, relid, filtered)]

\* The relations the planner asks get_relation_info about, and the index
\* lists it has built for them.
PlannedOids == {OidT, OidU, OidM}
IndexOids == {OidI, OidJ, OidK}
Candidates ==
  {q \in UNION {[1..n -> IndexOids] : n \in 0..MaxCand} :
     \A i, j \in 1..Len(q) : i # j => q[i] # q[j]}

\* The configuration strings of at most n characters.
StringsUpTo(n) == UNION {StringsOfLen(k) : k \in 0..n}

Init ==
  /\ directives = <<>>
  /\ oldHook = "NULL"
  /\ get_relation_info_hook \in {"NULL", "otherHook"}
  /\ mc = "NULL"
  /\ backend = "running"
  /\ stmt = "idle"
  /\ rawname = <<>>
  /\ error = ErrNone
  /\ relationObjectId = InvalidOid
  /\ candidates = <<>>
  /\ indexlist = <<>>
  /\ oldHookCalls = <<>>
  /\ varForcedIndex = <<>>
  /\ priorval = <<>>
  /\ shown = <<>>
  /\ nfreed = 0
  /\ unfreed = <<>>
  /\ splitText = <<>>
  /\ splitSep = ","
  /\ splitTokens = <<>>

Idle == backend = "running" /\ stmt = "idle"

\* DefineCustomStringVariable for a name that is defined already: guc.c
\* raises this error.
ErrRedefine == "attempt to redefine parameter"

\* What DefineCustomStringVariable does in _PG_init.  The first call defines
\* the variable.  A later call raises ErrRedefine in guc.c; a server that
\* kept the first definition and returned would let _PG_init go on.
DefineCustomStringVariable_outcomes(context) ==
  IF context = "NULL" THEN {ErrNone} ELSE {ErrNone, ErrRedefine}

\* Mutant: the hook is installed without the test.
PG_init_Unconditional ==
  /\ Idle
  /\ mc' = "planfix global"
  /\ \E outcome \in DefineCustomStringVariable_outcomes(mc) :
       /\ error' = outcome
       /\ IF outcome = ErrNone
          THEN /\ oldHook' = get_relation_info_hook
               /\ get_relation_info_hook' = "planfixHook"
          ELSE UNCHANGED <<oldHook, get_relation_info_hook>>
  /\ stmt' = "init"
  /\ UNCHANGED <<directives, backend, rawname, planVars, gucVars, heapVars,
                 splitVars>>

\* _PG_init: the memory context is created, the variable is defined, the
\* hook is installed.  DefineCustomStringVariable assigns the boot value "",
\* which finds the store empty and leaves it so.
PG_init ==
  /\ Idle
  /\ mc' = "planfix global"
  /\ \E outcome \in DefineCustomStringVariable_outcomes(mc) :
       /\ error' = outcome
       /\ IF outcome = ErrNone /\ get_relation_info_hook # "planfixHook"
          THEN /\ oldHook' = get_relation_info_hook
               /\ get_relation_info_hook' = "planfixHook"
          ELSE UNCHANGED <<oldHook, get_relation_info_hook>>
  /\ stmt' = "init"
  /\ UNCHANGED <<directives, backend, rawname, planVars, gucVars, heapVars,
                 splitVars>>

\* The assign hook of planfix.forcedindex: varForcedIndexAssign(newval, extra).
\* No directive of the call is freed: elog(ERROR) leaves the function before
\* the error label, and a call without error installs its directives.
varForcedIndexAssign(newval) ==
  /\ Idle
  /\ mc # "NULL"
  /\ \E outcome \in directive_free_outcomes(directives) :
       IF outcome = "aborted"
       THEN /\ backend' = "aborted"
            /\ UNCHANGED <<directives, stmt, rawname, error, heapVars>>
       ELSE LET kept == DeleteOld(directives)
                sections == SimpleStringSplit(newval, ";")
            IN \E r \in {ScanSections(sections, 1, <<>>)} :
                 /\ backend' = "running"
                 /\ stmt' = "set"
                 /\ rawname' = newval
                 /\ error' = r.error
                 /\ directives' = InstallDirectives(kept, r)
                 /\ nfreed' = Len(ForDelete(directives))
                 /\ unfreed' = r.tmpdirectives \o r.pending
  /\ UNCHANGED <<oldHook, get_relation_info_hook, mc, planVars, splitVars>>

\* The assign hook called with a string of at most MaxLen characters.  The
\* value of the variable, which only varForcedIndexShow reads, is followed
\* by SetForcedIndex.
Assign ==
  /\ Idle
  /\ \E newval \in Strings : varForcedIndexAssign(newval) /\ UNCHANGED gucVars

\* get_relation_info calls the current hook, when there is one, with the
\* relation and its RelOptInfo.  The other extension's hook leaves
\* rel->indexlist alone.
planfixHook(relid, list) ==
  /\ Idle
  /\ stmt' = "plan"
  /\ relationObjectId' = relid
  /\ candidates' = list
  /\ IF get_relation_info_hook = "planfixHook"
     THEN LET run == HookRun(directives, oldHook, relid, list)
          IN /\ indexlist' = run.indexlist
             /\ oldHookCalls' = run.calls
     ELSE /\ indexlist' = list
          /\ oldHookCalls' = CallHook(get_relation_info_hook, relid, list)
  /\ UNCHANGED <<directives, oldHook, get_relation_info_hook, mc, backend,
                 rawname, error, gucVars, heapVars, splitVars>>

Plan ==
  /\ Idle
  /\ \E relid \in PlannedOids, list \in Candidates : planfixHook(relid, list)

\* The end of the statement: its locals and arguments are gone.
ReadyForQuery ==
  /\ backend = "running"
  /\ stmt # "idle"
  /\ stmt' = "idle"
  /\ rawname' = <<>>
  /\ error' = ErrNone
  /\ relationObjectId' = InvalidOid
  /\ candidates' = <<>>
  /\ indexlist' = <<>>
  /\ oldHookCalls' = <<>>
  /\ priorval' = <<>>
  /\ shown' = <<>>
  /\ nfreed' = 0
  /\ unfreed' = <<>>
  /\ UNCHANGED <<directives, oldHook, get_relation_info_hook, mc, backend,
                 varForcedIndex, splitVars>>

Next == PG_init \/ Assign \/ Plan \/ ReadyForQuery

Spec == Init /\ [][Next]_vars

\* ------------------------------------------------ the value of the variable
\* Longest string assigned when the value of the variable is followed.
MaxGucLen == 3

GucStrings == StringsUpTo(MaxGucLen)

\* SET planfix.forcedindex = newval as guc.c runs it: the assign hook is
\* called, and when it has returned *conf->variable is set to newval.  An
\* elog(ERROR) in the hook leaves the variable as it was.
SetForcedIndex ==
  /\ Idle
  /\ \E newval \in GucStrings :
       /\ varForcedIndexAssign(newval)
       /\ priorval' = IF backend' = "running" THEN varForcedIndex ELSE priorval
       /\ varForcedIndex' = IF backend' = "running" /\ error' = ErrNone
                            THEN newval
                            ELSE varForcedIndex
       /\ UNCHANGED shown

RECURSIVE JoinWith(_, _)
\* The strings of a list written one after the other with c between them.
JoinWith(list, c) ==
  IF list = <<>> THEN <<>>
  ELSE IF Len(list) = 1 THEN Head(list)
  ELSE Head(list) \o <<c>> \o JoinWith(Tail(list), c)

\* Mutant: the value is written again from its sections.
varForcedIndexShow_Reserialised(value) ==
  JoinWith(SimpleStringSplit(value, ";"), ";")

\* varForcedIndexShow: palloc(strlen(varForcedIndex) + 1) and strcpy.
varForcedIndexShow(value) == [k \in 1..Len(value) |-> value[k]]

\* SHOW planfix.forcedindex.
Show ==
  /\ Idle
  /\ mc # "NULL"
  /\ stmt' = "show"
  /\ shown' = varForcedIndexShow(varForcedIndex)
  /\ UNCHANGED <<directives, oldHook, get_relation_info_hook, mc, backend,
                 rawname, error, planVars, varForcedIndex, priorval, heapVars,
                 splitVars>>

NextGuc == PG_init \/ SetForcedIndex \/ Show \/ Plan \/ ReadyForQuery

SpecGuc == Init /\ [][NextGuc]_vars

\* ------------------------------------------ several rules in one assignment
\* Longest rule of a configuration string made of rules.
MaxRuleLen == 3

RuleChars == {"T", "I", "J", ","}

RECURSIVE RulesOfLen(_)
RulesOfLen(n) ==
  IF n = 0 THEN {<<>>}
  ELSE {Append(s, c) : s \in RulesOfLen(n - 1), c \in RuleChars}
Rules == UNION {RulesOfLen(n) : n \in 0..MaxRuleLen}

\* One rule, or two rules with ';' between them.
RuleStrings == Rules \cup {a \o <<";">> \o b : a \in Rules, b \in Rules}

AssignRules ==
  /\ Idle
  /\ \E newval \in RuleStrings :
       varForcedIndexAssign(newval) /\ UNCHANGED gucVars

NextRules == PG_init \/ AssignRules \/ Plan \/ ReadyForQuery

SpecRules == Init /\ [][NextRules]_vars

\* ------------------------------------------------ SimpleStringSplit alone
\* Longest text given to SimpleStringSplit.
MaxSplitLen == 5

SplitChars == {"T", " ", ",", ";"}

RECURSIVE TextsOfLen(_)
TextsOfLen(n) ==
  IF n = 0 THEN {<<>>}
  ELSE {Append(s, c) : s \in TextsOfLen(n - 1), c \in SplitChars}
Texts == UNION {TextsOfLen(n) : n \in 0..MaxSplitLen}

\* A backend about to call SimpleStringSplit(splitText, splitSep).
InitSplit ==
  /\ directives = <<>>
  /\ oldHook = "NULL"
  /\ get_relation_info_hook = "NULL"
  /\ mc = "NULL"
  /\ backend = "running"
  /\ stmt = "idle"
  /\ rawname = <<>>
  /\ error = ErrNone
  /\ relationObjectId = InvalidOid
  /\ candidates = <<>>
  /\ indexlist = <<>>
  /\ oldHookCalls = <<>>
  /\ varForcedIndex = <<>>
  /\ priorval = <<>>
  /\ shown = <<>>
  /\ nfreed = 0
  /\ unfreed = <<>>
  /\ splitText \in Texts
  /\ splitSep \in {",", ";"}
  /\ splitTokens = <<>>

Split ==
  /\ Idle
  /\ stmt' = "split"
  /\ splitTokens' = SimpleStringSplit(splitText, splitSep)
  /\ UNCHANGED <<directives, oldHook, get_relation_info_hook, mc, backend,
                 rawname, error, planVars, gucVars, heapVars, splitText,
                 splitSep>>

NextSplit == Split

SpecSplit == InitSplit /\ [][NextSplit]_vars

\* ------------------------------------------- what a configuration string asks for
Range(q) == {q[k] : k \in 1..Len(q)}

\* The groups of a configuration string and the items of a group.
Groups(s) == SimpleStringSplit(s, ";")
Items(g) == SimpleStringSplit(g, ",")

KindOf(name) ==
  LET oid == RangeVarGetRelid(name)
  IN IF oid = InvalidOid THEN "unknown"
     ELSE IF get_rel_relkind(oid) = RELKIND_RELATION THEN "table"
     ELSE IF get_rel_relkind(oid) = RELKIND_INDEX THEN "index"
     ELSE "other"

TablesBefore(items, k) == {j \in 1..(k - 1) : KindOf(items[j]) = "table"}

\* What is wrong with item k of a group, if anything.
Offence(items, k) ==
  IF KindOf(items[k]) = "unknown" THEN ErrUnknownIdentifier
  ELSE IF KindOf(items[k]) = "other" THEN ErrUnsupportedRelationKind
  ELSE IF KindOf(items[k]) = "table" /\ TablesBefore(items, k) # {}
  THEN ErrMultipleTablesInGroup
  ELSE IF KindOf(items[k]) = "index" /\ TablesBefore(items, k) = {}
  THEN ErrIndexBeforeTable
  ELSE ErrNone

WellFormed(items) == \A k \in 1..Len(items) : Offence(items, k) = ErrNone

\* The positions <<group, item>> of the offending items of a string, and the
\* offence of the first of them in scan order.
Offending(s) ==
  {p \in UNION {{<<g, k>> : k \in 1..Len(Items(Groups(s)[g]))} : g \in 1..Len(Groups(s))} :
     Offence(Items(Groups(s)[p[1]]), p[2]) # ErrNone}

FirstOffence(s) ==
  IF Offending(s) = {} THEN ErrNone
  ELSE LET p == CHOOSE p \in Offending(s) :
                  \A q \in Offending(s) :
                    p[1] < q[1] \/ (p[1] = q[1] /\ p[2] <= q[2])
       IN Offence(Items(Groups(s)[p[1]]), p[2])

\* The directive a group stands for: its table and, in order, its indexes.
GroupDirective(items) ==
  LET tables == SelectSeq(items, LAMBDA n : KindOf(n) = "table")
      indexes == SelectSeq(items, LAMBDA n : KindOf(n) = "index")
  IN [op |-> PLANFIX_OP_FORCEINDEX,
      relation |-> IF tables = <<>> THEN InvalidOid ELSE RangeVarGetRelid(tables[1]),
      indices |-> [k \in 1..Len(indexes) |-> RangeVarGetRelid(indexes[k])]]

\* The last step was an assignment that returned or raised its error.
Assigned == backend = "running" /\ stmt = "set"
\* The last step was a call of planfixHook by the planner.
Planned == stmt = "plan" /\ get_relation_info_hook = "planfixHook"

\* The directives of the store that restrict the planned relation.
Restricting ==
  {k \in 1..Len(directives) :
     directives[k].relation = relationObjectId /\ directives[k].indices # <<>>}

\* -------------------------------------------------------------- properties

\* C1: when an assignment fails, the store afterwards holds exactly the
\* directives it held before the assignment began.
C1_FailedAssignKeepsStore ==
  [][(stmt = "idle" /\ stmt' = "set" /\ error' # ErrNone)
       => directives' = directives]_vars

\* C2: for a relation with a stored directive whose whitelist is not empty,
\* the hook leaves in rel->indexlist exactly the entries whose indexoid is in
\* the whitelist, in their original order; the list of a relation without a
\* directive is unchanged.
C2_WhitelistFilter ==
  Planned =>
    /\ Restricting # {} =>
         indexlist = SelectSeq(candidates,
                        LAMBDA x : \A k \in Restricting : x \in Range(directives[k].indices))
    /\ (\A k \in 1..Len(directives) : directives[k].relation # relationObjectId)
         => indexlist = candidates

C2_Witness ==
  /\ Planned
  /\ \E k \in Restricting : Len(directives[k].indices) = 2
  /\ Len(directives) = 1
  /\ Len(candidates) = 3
  /\ Len(indexlist) = 2
  /\ indexlist # directives[1].indices

\* C3: after a failed assignment the store holds no directive built from the
\* well-formed groups of the failing string.
C3_NoPartialInstall ==
  (Assigned /\ error # ErrNone) =>
    \A g \in 1..Len(Groups(rawname)) :
      WellFormed(Items(Groups(rawname)[g]))
        => GroupDirective(Items(Groups(rawname)[g])) \notin Range(directives)

C3_Witness ==
  /\ Assigned
  /\ error = ErrIndexBeforeTable
  /\ Len(Groups(rawname)) = 2
  /\ WellFormed(Items(Groups(rawname)[1]))
  /\ GroupDirective(Items(Groups(rawname)[1])).indices # <<>>
  /\ directives = <<>>

\* C4: after a successful assignment of S the store holds exactly one
\* directive per group of S, in group order, and none of an earlier
\* assignment; no later step but an assignment changes the store, so every
\* later call of the hook sees these directives.
C4_StoreIsLastAssignment ==
  /\ []((Assigned /\ error = ErrNone) =>
          /\ Len(directives) = Len(Groups(rawname))
          /\ \A g \in 1..Len(directives) :
               directives[g] = GroupDirective(Items(Groups(rawname)[g])))
  /\ [][stmt' # "set" => directives' = directives]_vars

C4_Witness ==
  /\ Assigned
  /\ error = ErrNone
  /\ Len(directives) = 2
  /\ directives[1].relation = OidU
  /\ directives[1].indices # <<>>
  /\ directives[2].relation = OidT

\* C5: when the store holds no directive for the planned relation, or only
\* directives with an empty whitelist, the hook leaves rel->indexlist as it is.
C5_NoRestrictionNoChange ==
  (Planned /\ Restricting = {}) => indexlist = candidates

C5_Witness ==
  /\ Planned
  /\ Restricting = {}
  /\ \E k \in 1..Len(directives) : directives[k].relation = relationObjectId
  /\ \E k \in 1..Len(directives) : directives[k].indices # <<>>
  /\ Len(candidates) = 2
  /\ indexlist = candidates

\* C6: every call of planfixHook calls the previously installed hook, when
\* there is one, exactly once, with the planned relation and the list as
\* planfixHook has filtered it.
C6_ChainsToOldHook ==
  Planned =>
    IF oldHook = "NULL" THEN oldHookCalls = <<>>
    ELSE /\ Len(oldHookCalls) = 1
         /\ oldHookCalls[1].hook = oldHook
         /\ oldHookCalls[1].relationObjectId = relationObjectId
         /\ oldHookCalls[1].indexlist = indexlist

C6_Witness ==
  /\ Planned
  /\ oldHook = "otherHook"
  /\ Len(oldHookCalls) = 1
  /\ Len(candidates) = 3
  /\ Len(oldHookCalls[1].indexlist) = 1

\* C7: an assignment fails for every string in which a group has an index
\* before any table of that group; the error is IndexBeforeTable when that
\* item is the first offending one, and no directive of the string is
\* installed.
HasIndexBeforeTable(s) ==
  \E g \in 1..Len(Groups(s)) : \E k \in 1..Len(Items(Groups(s)[g])) :
    /\ KindOf(Items(Groups(s)[g])[k]) = "index"
    /\ TablesBefore(Items(Groups(s)[g]), k) = {}

C7_IndexBeforeTableFails ==
  (Assigned /\ HasIndexBeforeTable(rawname)) =>
    /\ error # ErrNone
    /\ FirstOffence(rawname) = ErrIndexBeforeTable => error = ErrIndexBeforeTable
    /\ \A g \in 1..Len(Groups(rawname)) :
         GroupDirective(Items(Groups(rawname)[g])) \notin Range(directives)

C7_Witness ==
  /\ Assigned
  /\ HasIndexBeforeTable(rawname)
  /\ error = ErrIndexBeforeTable
  /\ Len(Groups(rawname)) = 2
  /\ Len(Items(Groups(rawname)[2])) = 2
  /\ WellFormed(Items(Groups(rawname)[1]))

\* C8: an assignment fails for every string in which a group has two tables;
\* the error is MultipleTablesInGroup when the second table is the first
\* offending item; so every installed directive governs exactly one table.
HasTwoTables(s) ==
  \E g \in 1..Len(Groups(s)) : \E k \in 1..Len(Items(Groups(s)[g])) :
    /\ KindOf(Items(Groups(s)[g])[k]) = "table"
    /\ TablesBefore(Items(Groups(s)[g]), k) # {}

C8_OneTablePerDirective ==
  Assigned =>
    /\ HasTwoTables(rawname) =>
         /\ error # ErrNone
         /\ FirstOffence(rawname) = ErrMultipleTablesInGroup
              => error = ErrMultipleTablesInGroup
    /\ error = ErrNone =>
         \A k \in 1..Len(directives) :
           get_rel_relkind(directives[k].relation) = RELKIND_RELATION

\* C9: an assignment fails whenever an item of the string is unknown or is
\* neither a table nor an index, with that error when the item is the first
\* offending one; the hook raises no error at planning time.
HasBadItem(s) ==
  \E g \in 1..Len(Groups(s)) : \E k \in 1..Len(Items(Groups(s)[g])) :
    KindOf(Items(Groups(s)[g])[k]) \in {"unknown", "other"}

C9_BadItemFails ==
  /\ (Assigned /\ HasBadItem(rawname)) =>
       /\ error # ErrNone
       /\ FirstOffence(rawname) \in {ErrUnknownIdentifier, ErrUnsupportedRelationKind}
            => error = FirstOffence(rawname)
  /\ stmt = "plan" => error = ErrNone

C9_Witness ==
  /\ Assigned
  /\ error = ErrUnsupportedRelationKind
  /\ Len(Groups(rawname)) = 1
  /\ Len(Items(Groups(rawname)[1])) = 2
  /\ KindOf(Items(Groups(rawname)[1])[1]) = "table"

\* C10: a whitelist entry whose index is absent from rel->indexlist is
\* ineffective: the hook raises no error and its result is the result it
\* would give with that entry removed from the whitelist.
RemoveOid(q, e) == SelectSeq(q, LAMBDA x : x # e)
WithoutEntry(k, e) == [directives EXCEPT ![k].indices = RemoveOid(@, e)]

C10_StaleEntryIneffective ==
  Planned =>
    /\ error = ErrNone
    /\ \A k \in 1..Len(directives) :
         \A e \in Range(directives[k].indices) \ Range(candidates) :
           indexlist = FilterBy(WithoutEntry(k, e), relationObjectId, candidates)

\* C10 as amended: the same, for an entry that is not the only index of its
\* whitelist.
C10_StaleEntryAmongOthers ==
  Planned =>
    /\ error = ErrNone
    /\ \A k \in 1..Len(directives) :
         \A e \in Range(directives[k].indices) \ Range(candidates) :
           RemoveOid(directives[k].indices, e) # <<>>
             => indexlist = FilterBy(WithoutEntry(k, e), relationObjectId, candidates)

C10_Witness ==
  /\ Planned
  /\ \E k \in Restricting :
       /\ Range(directives[k].indices) = {OidI, OidJ}
       /\ Range(candidates) = {OidJ, OidK}
  /\ Len(indexlist) = 1

\* The store an assignment of s installs: one directive per group, in order.
ExpectedStore(s) ==
  [g \in 1..Len(Groups(s)) |-> GroupDirective(Items(Groups(s)[g]))]

\* C11: after a successful assignment of S the variable holds exactly S, no
\* step but an assignment changes it (a call of the hook does not), and SHOW
\* returns the string the variable holds, character for character.
C11_ShowReturnsAssigned ==
  /\ []((Assigned /\ error = ErrNone) => varForcedIndex = rawname)
  /\ [][stmt' # "set" => varForcedIndex' = varForcedIndex]_vars
  /\ [](stmt = "show" => shown = varForcedIndex)

\* SHOW after SET ';T': the string comes back with its empty group.
C11_Witness ==
  /\ stmt = "show"
  /\ shown = <<";", "T">>
  /\ Len(directives) = 1
  /\ directives[1].relation = OidT

RunsOf(text, sep) ==
  {run \in (1..Len(text)) \X (1..Len(text)) :
     /\ run[1] <= run[2]
     /\ \A k \in run[1]..run[2] : text[k] # sep
     /\ run[1] = 1 \/ text[run[1] - 1] = sep
     /\ run[2] = Len(text) \/ text[run[2] + 1] = sep}

\* SimpleStringSplit has returned.
SplitDone == stmt = "split"

Whitespace == {" "}

\* C13: the list returned holds, in order, exactly the maximal runs of
\* characters other than the separator: as many tokens as runs, token k is
\* the run with k - 1 runs before it, no token is empty or holds the
\* separator, and the empty text gives the empty list.  The scan ends on
\* every text, with or without a separator at its end.
C13_TokensAreRuns ==
  SplitDone =>
    LET runs == RunsOf(splitText, splitSep)
    IN /\ Len(splitTokens) = Cardinality(runs)
       /\ \A k \in 1..Len(splitTokens) :
            /\ splitTokens[k] # <<>>
            /\ \A j \in 1..Len(splitTokens[k]) : splitTokens[k][j] # splitSep
            /\ \E run \in runs :
                 /\ Cardinality({other \in runs : other[1] < run[1]}) = k - 1
                 /\ splitTokens[k] = SubSeq(splitText, run[1], run[2])
       /\ splitText = <<>> => splitTokens = <<>>

\* split("T,,T,", ',') = ["T", "T"]
C13_Witness ==
  /\ SplitDone
  /\ splitText = <<"T", ",", ",", "T", ",">>
  /\ splitSep = ","
  /\ splitTokens = <<<<"T">>, <<"T">>>>

\* C14: no token returned begins or ends with a whitespace character.
C14_TokensTrimmed ==
  SplitDone =>
    \A k \in 1..Len(splitTokens) :
      \A j \in {1, Len(splitTokens[k])} \cap DOMAIN splitTokens[k] :
        splitTokens[k][j] \notin Whitespace

\* The text has a whitespace character at one of its ends or next to a
\* separator.
EdgeWhitespace(text, sep) ==
  \E k \in 1..Len(text) :
    /\ text[k] \in Whitespace
    /\ \/ k = 1
       \/ k = Len(text)
       \/ text[k - 1] = sep
       \/ text[k + 1] = sep

\* C14, amended: for a text with no whitespace character at its ends or
\* next to a separator, no token returned begins or ends with a whitespace
\* character; whitespace inside a token is kept.
C14_TokensTrimmedWhenRunsAre ==
  (SplitDone /\ ~EdgeWhitespace(splitText, splitSep)) =>
    \A k \in 1..Len(splitTokens) :
      \A j \in {1, Len(splitTokens[k])} \cap DOMAIN splitTokens[k] :
        splitTokens[k][j] \notin Whitespace

\* split("T T,T", ',') = ["T T", "T"]
C14_Witness ==
  /\ SplitDone
  /\ ~EdgeWhitespace(splitText, splitSep)
  /\ splitSep = ","
  /\ splitTokens = <<<<"T", " ", "T">>, <<"T">>>>

\* The groups of s that have at least one item.
GroupsWithItems(s) ==
  {g \in 1..Len(Groups(s)) : Items(Groups(s)[g]) # <<>>}

\* C15: a group without items does not fail the assignment and adds no
\* directive: an assignment of groups without items succeeds, and after a
\* successful assignment the store holds as many directives as the string
\* has groups with at least one item.
C15_EmptyGroupSkipped ==
  Assigned =>
    /\ GroupsWithItems(rawname) = {} => error = ErrNone
    /\ error = ErrNone =>
         Len(directives) = Cardinality(GroupsWithItems(rawname))

\* C16: in every state every directive of the store has a table that was
\* resolved, to a relation of kind plain table, and every entry of its
\* whitelist was resolved to a relation of kind index.
C16_DirectivesResolved ==
  \A k \in 1..Len(directives) :
    /\ directives[k].relation # InvalidOid
    /\ get_rel_relkind(directives[k].relation) = RELKIND_RELATION
    /\ \A j \in 1..Len(directives[k].indices) :
         /\ directives[k].indices[j] # InvalidOid
         /\ get_rel_relkind(directives[k].indices[j]) = RELKIND_INDEX

\* C17: every assignment releases each directive the store held, once, and
\* goes on: the backend is still running, directive_free was called once per
\* directive held, and the store holds none of them afterwards, only what
\* the new string installed; the hook reads the store only.
C17_OldDirectivesFreedOnce ==
  [][(Idle /\ mc # "NULL" /\ (stmt' = "set" \/ backend' # backend))
     => /\ backend' = "running"
        /\ nfreed' = Len(directives)
        /\ Len(directives') <= Len(Groups(rawname'))]_vars

\* C18: after any assignment every directive the call palloc'ed and did not
\* free is in the store; after a failed one there is none left.
C18_NoLeakOnFailure ==
  Assigned =>
    /\ \A k \in 1..Len(unfreed) : unfreed[k] \in Range(directives)
    /\ error # ErrNone => unfreed = <<>>

\* C19: when two or more directives of the store restrict the planned
\* table, the hook keeps a candidate exactly when every one of their
\* whitelists names it, whatever the place of the directive in the store.
C19_AllMatchingApplied ==
  (Planned /\ Cardinality(Restricting) >= 2) =>
    \A x \in Range(candidates) :
      x \in Range(indexlist) <=>
        \A k \in Restricting : x \in Range(directives[k].indices)

\* After SET 'T,I;T,J' the candidates I, J, K of T are all removed: I is
\* not in the second whitelist, J is not in the first.
C19_Witness ==
  /\ Planned
  /\ Restricting = {1, 2}
  /\ directives[1].indices = <<OidI>>
  /\ directives[2].indices = <<OidJ>>
  /\ candidates = <<OidI, OidJ, OidK>>
  /\ indexlist = <<>>

\* C20: the first _PG_init saves the hook that was current and installs
\* planfixHook; every later _PG_init leaves both pointers as they are; so
\* oldHook is never planfixHook, and a planning call that enters planfixHook
\* runs it once and hands over to the other hook at most once.
C20_HookInstalledOnce ==
  /\ [](oldHook # "planfixHook")
  /\ [][(mc = "NULL" /\ stmt' = "init")
        => /\ oldHook' = get_relation_info_hook
           /\ get_relation_info_hook' = "planfixHook"]_vars
  /\ [][(mc # "NULL" /\ stmt' = "init")
        => /\ oldHook' = oldHook
           /\ get_relation_info_hook' = get_relation_info_hook]_vars
  /\ [](Planned =>
          /\ Len(oldHookCalls) <= 1
          /\ \A k \in 1..Len(oldHookCalls) :
               oldHookCalls[k].hook # "planfixHook")

\* A second _PG_init in a backend where another extension had its hook
\* installed before the first.
C20_Witness ==
  /\ stmt = "init"
  /\ error = ErrRedefine
  /\ get_relation_info_hook = "planfixHook"
  /\ oldHook = "otherHook"

====
